---- MODULE Spec2Model ----
(***************************************************************************)
(* Model of timber/cython/taper_equations_cy.pyx: the four taper-equation  *)
(* evaluators czaplewski_heights, kozak1969_heights, kozak1988_heights and *)
(* wensel_heights.                                                         *)
(*                                                                         *)
(* Numbers.  A C float/double value is one of                              *)
(*   [k |-> "fin", n, d]   the finite value n/d (d > 0, lowest terms),     *)
(*   NaN, PInf, NInf       the IEEE-754 special values.                    *)
(* Finite arithmetic (+ - * /) is exact: the rounding of finite results to *)
(* 24/53 significant bits (and their overflow past FLT_MAX) is not         *)
(* modelled, and neither is the sign of zero.  Everything else is: the special values and their propagation,    *)
(* the zero-divisor test Cython puts in front of every C division          *)
(* (directive cdivision=False, the default: no directive is set in the     *)
(* file), the C cast behind int(), and the special cases of libm.          *)
(* sqrt is correctly rounded to SqrtBits fractional bits; a result of log, *)
(* exp or pow outside their exact special cases is an unspecified value of *)
(* the sign and range the function guarantees, drawn from a sample set.    *)
(***************************************************************************)
EXTENDS Integers, Sequences, FiniteSets, TLC

VARIABLES pc, fn, dbh, total_height, coef, top_height, stem_height,
          Z, Z2, I1, I2, X, dib, dib_int, stem_heights, fault, writes,
          build

vars == <<pc, fn, dbh, total_height, coef, top_height, stem_height,
          Z, Z2, I1, I2, X, dib, dib_int, stem_heights, fault, writes,
          build>>

----------------------------------------------------------------------------
(* Bounds of the model *)

\* total_height ranges over the halves 0/2 .. MaxHalfHeight/2 (and a few
\* named sample trees)
MaxHalfHeight == 7

\* fractional bits of a sqrt result
SqrtBits == 12

----------------------------------------------------------------------------
(* C numbers *)

Abs(x) == IF x < 0 THEN -x ELSE x

RECURSIVE GCD(_, _)
GCD(a, b) == IF b = 0 THEN a ELSE GCD(b, a % b)

\* the finite value n/d in lowest terms, d # 0
Rat(n, d) ==
    LET s == IF d < 0 THEN -1 ELSE 1
        g == GCD(Abs(n), Abs(d))
    IN  [k |-> "fin", n |-> (s * n) \div g, d |-> (s * d) \div g]

NaN  == [k |-> "nan",  n |-> 0, d |-> 1]
PInf == [k |-> "pinf", n |-> 0, d |-> 1]
NInf == [k |-> "ninf", n |-> 0, d |-> 1]

\* a C local that has not been assigned yet
Unset == [k |-> "unset", n |-> 0, d |-> 1]

IsFin(v)  == v.k = "fin"
IsNaN(v)  == v.k = "nan"
IsZero(v) == v.k = "fin" /\ v.n = 0

\* -1, 0, 1: the sign of a value that is not NaN
Sign(v) ==
    CASE v.k = "pinf" -> 1
      [] v.k = "ninf" -> -1
      [] OTHER -> IF v.n > 0 THEN 1 ELSE IF v.n < 0 THEN -1 ELSE 0

Signed(s) == IF s > 0 THEN PInf ELSE NInf

Neg(v) ==
    CASE v.k = "fin"  -> Rat(-v.n, v.d)
      [] v.k = "pinf" -> NInf
      [] v.k = "ninf" -> PInf
      [] OTHER -> v

\* C x + y
Add(x, y) ==
    CASE IsNaN(x) \/ IsNaN(y) -> NaN
      [] IsFin(x) /\ IsFin(y) -> Rat(x.n * y.d + y.n * x.d, x.d * y.d)
      [] IsFin(x) -> y
      [] IsFin(y) -> x
      [] OTHER -> IF x.k = y.k THEN x ELSE NaN

\* C x - y
Sub(x, y) == Add(x, Neg(y))

\* C x * y
Mul(x, y) ==
    CASE IsNaN(x) \/ IsNaN(y) -> NaN
      [] IsFin(x) /\ IsFin(y) -> Rat(x.n * y.n, x.d * y.d)
      [] IsZero(x) \/ IsZero(y) -> NaN
      [] OTHER -> Signed(Sign(x) * Sign(y))

\* C x / y, as the hardware divides (IEEE-754)
FDiv(x, y) ==
    CASE IsNaN(x) \/ IsNaN(y) -> NaN
      [] IsFin(x) /\ IsFin(y) ->
            IF y.n # 0 THEN Rat(x.n * y.d, x.d * y.n)
            ELSE IF x.n = 0 THEN NaN ELSE Signed(Sign(x))
      [] IsFin(y) -> Signed(Sign(x) * (IF Sign(y) < 0 THEN -1 ELSE 1))
      [] IsFin(x) -> Rat(0, 1)
      [] OTHER -> NaN

\* Cython's test in front of a C division whose divisor is no constant:
\* "if (unlikely(divisor == 0)) raise ZeroDivisionError"
NoZeroDivisorTest(y) == FALSE
ZeroDivisor(y) == IsZero(y)

\* C x < y (false when either side is NaN)
Less(x, y) ==
    CASE IsNaN(x) \/ IsNaN(y) -> FALSE
      [] IsFin(x) /\ IsFin(y) -> x.n * y.d < y.n * x.d
      [] OTHER -> x.k # y.k /\ (x.k = "ninf" \/ y.k = "pinf")

\* the C conversion int -> float
FromInt(i) == Rat(i, 1)

\* INT_MAX and INT_MIN of a 32-bit C int
INT_MAX == 2147483647
INT_MIN == -INT_MAX - 1

\* The C cast (int)v of a NaN or an infinity is undefined behaviour.  What
\* it gives is a property of the build: the x86 conversion instructions
\* return INT_MIN ("integer indefinite") for all three, a saturating
\* conversion (ARM, or a compiler that folds the cast) returns 0 for NaN,
\* INT_MAX for +inf and INT_MIN for -inf.
Builds == {"indefinite", "saturating"}

CastUndefined(v, b) ==
    IF b = "indefinite" THEN INT_MIN
    ELSE CASE v.k = "pinf" -> INT_MAX
           [] v.k = "ninf" -> INT_MIN
           [] OTHER -> 0

\* the C cast (int)v of a finite value: the fraction is discarded
Trunc(v) == IF v.n >= 0 THEN v.n \div v.d ELSE -((-v.n) \div v.d)

\* int(v) assigned to a cdef int: Cython emits the C cast
CastInt(v, b) == IF IsFin(v) THEN Trunc(v) ELSE CastUndefined(v, b)

----------------------------------------------------------------------------
(* libm *)

RECURSIVE Pow2(_)
Pow2(e) == IF e = 0 THEN 1 ELSE 2 * Pow2(e - 1)

\* floor(r * 2^e / d) for 0 <= r < d
RECURSIVE FracBits(_, _, _)
FracBits(r, d, e) ==
    IF e = 0 THEN 0
    ELSE ((2 * r) \div d) * Pow2(e - 1) + FracBits((2 * r) % d, d, e - 1)

\* floor(n * 2^e / d) for n >= 0
ScaleFloor(n, d, e) == (n \div d) * Pow2(e) + FracBits(n % d, d, e)

\* floor(sqrt(x)) for lo*lo <= x < hi*hi
RECURSIVE ISqrtIn(_, _, _)
ISqrtIn(x, lo, hi) ==
    IF hi - lo <= 1 THEN lo
    ELSE LET mid == (lo + hi) \div 2
         IN  IF mid * mid <= x THEN ISqrtIn(x, mid, hi) ELSE ISqrtIn(x, lo, mid)

ISqrt(x) == ISqrtIn(x, 0, 46341)

\* sqrt(n/d), n/d > 0, rounded to the nearest multiple of 2^-SqrtBits (of a
\* coarser power of two from 8 upwards)
RECURSIVE SqrtPos(_, _)
SqrtPos(n, d) ==
    IF n \div d >= 8 THEN Mul(Rat(2, 1), SqrtPos(n, 4 * d))
    ELSE Rat((ISqrt(ScaleFloor(n, d, 2 * (SqrtBits + 1))) + 1) \div 2, Pow2(SqrtBits))

\* libm sqrt
Sqrt(v) ==
    CASE v.k = "nan"  -> NaN
      [] v.k = "pinf" -> PInf
      [] v.k = "ninf" -> NaN
      [] OTHER -> IF v.n < 0 THEN NaN
                  ELSE IF v.n = 0 THEN v
                  ELSE SqrtPos(v.n, v.d)

\* results libm leaves to the implementation are drawn from these: some value
\* above 1, some value strictly between 0 and 1, and their negatives
Above1    == {Rat(3, 2), Rat(5, 1)}
Between01 == {Rat(1, 8), Rat(3, 4)}

LogSamples == {Rat(1, 8), Rat(5, 1)}

\* exp overflows a double above ln(DBL_MAX) = 709.78..., and underflows to 0
\* below ln(2^-1075) = -745.13...
ExpOverflow  == 709
ExpUnderflow == -745

\* libm exp: the values exp(v) may return
Exp(v) ==
    CASE v.k = "nan"  -> {NaN}
      [] v.k = "pinf" -> {PInf}
      [] v.k = "ninf" -> {Rat(0, 1)}
      [] OTHER ->
            IF v.n = 0 THEN {Rat(1, 1)}
            ELSE IF v.n > ExpOverflow * v.d THEN {PInf}
            ELSE IF v.n < ExpUnderflow * v.d THEN {Rat(0, 1)}
            ELSE IF v.n > 0 THEN Above1 ELSE Between01

\* libm log: the values log(v) may return
Log(v) ==
    CASE v.k = "nan"  -> {NaN}
      [] v.k = "pinf" -> {PInf}
      [] v.k = "ninf" -> {NaN}
      [] OTHER ->
            IF v.n < 0 THEN {NaN}
            ELSE IF v.n = 0 THEN {NInf}
            ELSE IF v.n = v.d THEN {Rat(0, 1)}
            ELSE IF v.n > v.d THEN LogSamples
            ELSE {Neg(s) : s \in LogSamples}

\* x^e for a finite x and an integer e >= 0
RECURSIVE IntPow(_, _)
IntPow(x, e) == IF e = 0 THEN Rat(1, 1) ELSE Mul(x, IntPow(x, e - 1))

IsInteger(v) == IsFin(v) /\ v.d = 1
IsOdd(v)     == IsInteger(v) /\ v.n % 2 = 1
Half         == Rat(1, 2)
One          == Rat(1, 1)
Zero         == Rat(0, 1)

\* |x| compared with 1, for x not NaN: -1, 0, 1
AbsVsOne(x) ==
    IF ~IsFin(x) THEN 1
    ELSE IF Abs(x.n) > x.d THEN 1 ELSE IF Abs(x.n) < x.d THEN -1 ELSE 0

\* libm pow / powf: the values pow(x, y) may return (C99 F.9.4.4)
Pow(x, y) ==
    CASE IsZero(y) -> {One}
      [] x = One -> {One}
      [] IsNaN(x) \/ IsNaN(y) -> {NaN}
      [] ~IsFin(y) ->
            IF AbsVsOne(x) = 0 THEN {One}
            ELSE IF (AbsVsOne(x) > 0) = (y.k = "pinf") THEN {PInf} ELSE {Zero}
      [] ~IsFin(x) ->
            IF Sign(y) < 0 THEN {Zero}
            ELSE IF x.k = "ninf" /\ IsOdd(y) THEN {NInf} ELSE {PInf}
      [] IsZero(x) -> IF Sign(y) > 0 THEN {Zero} ELSE {PInf}
      [] IsInteger(y) ->
            IF y.n > 0 THEN {IntPow(x, y.n)}
            ELSE {FDiv(One, IntPow(x, -y.n))}
      [] Sign(x) < 0 -> {NaN}
      [] y = Half -> {Sqrt(x)}
      [] OTHER ->
            IF (AbsVsOne(x) > 0) = (Sign(y) > 0) THEN Above1 ELSE Between01

----------------------------------------------------------------------------
(* The shared shape of the four evaluators *)

\* cdef dict stem_heights = {}
EmptyDict == << >>

\* stem_heights[key] = value
DictSet(dict, key, value) ==
    [x \in DOMAIN dict \cup {key} |-> IF x = key THEN value ELSE dict[x]]

\* cdef int top_height = int(total_height)
TopHeight(th, b) == CastInt(th, b)

\* range(1, top_height + 1): the first height, and whether height h is in it
FirstHeightFromZero == 1 - 1
FirstHeight == 1

InRangeExclusive(h, top) == h < top
InRangeInclusive(h, top) == h <= top + 1
InRange(h, top) == h < top + 1

\* the loop's step from one height to the next
NextHeight(h) == h + 1

\* dibs = [dib_int, dib, dib / 12.0]
DibsTimes12(di, d) == <<di, d, Mul(d, FromInt(12))>>
Dibs(di, d) == <<di, d, FDiv(d, FromInt(12))>>

\* Z = stem_height / total_height
RelHeightFromZero(h, th) == FDiv(FromInt(h - 1), th)
RelHeight(h, th) == FDiv(FromInt(h), th)

\* Z2 = (stem_height ** 2) / (total_height ** 2)
RelHeight2(h, th) == FDiv(FromInt(h * h), Mul(th, th))

----------------------------------------------------------------------------
(* The four diameter formulas *)

\* I1 = int(Z < a)
IndicatorReversed(z, a) == IF Less(a, z) THEN 1 ELSE 0
Indicator(z, a) == IF Less(z, a) THEN 1 ELSE 0

Sq(v) == Mul(v, v)

\* czaplewski_heights: dib = dbh * sqrt(c*(Z-1) + d*(Z2-1)
\*                            + e*(a-Z)**2*I1 + f*(b-Z)**2*I2)
CzaplewskiDib(dbh_, z, z2, i1, i2, co) ==
    Mul(dbh_,
        Sqrt(Add(Add(Add(Mul(co.c, Sub(z, One)),
                         Mul(co.d, Sub(z2, One))),
                     Mul(Mul(co.e, Sq(Sub(co.a, z))), FromInt(i1))),
                 Mul(Mul(co.f, Sq(Sub(co.b, z))), FromInt(i2)))))

\* kozak1969_heights: dib = dbh * sqrt(a + (b * Z) + (c * Z2))
Kozak1969DibLinear(dbh_, z, z2, co) ==
    Mul(dbh_, Sqrt(Add(Add(co.a, Mul(co.b, z)), Mul(co.c, z))))
Kozak1969DibSum(dbh_, z, z2, co) ==
    Add(dbh_, Sqrt(Add(Add(co.a, Mul(co.b, z)), Mul(co.c, z2))))
Kozak1969Dib(dbh_, z, z2, co) ==
    Mul(dbh_, Sqrt(Add(Add(co.a, Mul(co.b, z)), Mul(co.c, z2))))

\* kozak1988_heights, the divisor of the base: 1 - (d ** 0.5)
Kozak1988Divisors(co) == {Sub(One, ds) : ds \in Pow(co.d, Half)}

\* kozak1988_heights: the values of
\*   (a * dbh**b * c**dbh) * ((1 - Z**0.5) / (1 - d**0.5))
\*     ** (e*Z**2 + f*log(Z + 0.001) + g*Z**0.5 + h*exp(Z) + i*(dbh/total_height))
\* for a divisor dv of the base that is not zero
Kozak1988Dib(dbh_, th, z, dv, co) ==
    UNION { UNION { UNION { UNION { UNION {
        LET base == FDiv(Sub(One, zs), dv)
            expo == Add(Add(Add(Add(Mul(co.e, Sq(z)), Mul(co.f, lg)),
                                Mul(co.g, zs)),
                            Mul(co.h, ex)),
                        Mul(co.i, FDiv(dbh_, th)))
        IN  { Mul(Mul(Mul(co.a, pb), pc_), pw) : pw \in Pow(base, expo) }
        : ex \in Exp(z) }
        : lg \in Log(Add(z, Rat(1, 1000))) }
        : zs \in Pow(z, Half) }
        : pc_ \in Pow(co.c, dbh_) }
        : pb \in Pow(dbh_, co.b) }

\* wensel_heights: Z = (stem_height - 1) / (total_height - 1)
WenselDivisor(th) == Sub(th, One)
WenselZPlain(h, th) == FDiv(FromInt(h), th)
WenselZ(h, th) == FDiv(FromInt(h - 1), WenselDivisor(th))

\* wensel_heights: X = (c + (d * dbh) + (e * total_height))
WenselX(dbh_, th, co) == Add(Add(co.c, Mul(co.d, dbh_)), Mul(co.e, th))

\* wensel_heights: the values of
\*   dbh * (a - (X * (log(1 - (Z ** b) * (1 - exp(a / X))))))
\* for an X that is not zero
WenselDib(dbh_, z, x, co) ==
    UNION { UNION {
        { Mul(dbh_, Sub(co.a, Mul(x, lg)))
            : lg \in Log(Sub(One, Mul(zb, Sub(One, ex)))) }
        : ex \in Exp(FDiv(co.a, x)) }
        : zb \in Pow(z, co.b) }

----------------------------------------------------------------------------
(* The arguments a call is made with *)

NoCoef == [a |-> Unset, b |-> Unset, c |-> Unset, d |-> Unset, e |-> Unset,
           f |-> Unset, g |-> Unset, h |-> Unset, i |-> Unset]

Coef3(a, b, c) == [NoCoef EXCEPT !.a = a, !.b = b, !.c = c]
Coef5(a, b, c, d, e) == [Coef3(a, b, c) EXCEPT !.d = d, !.e = e]
Coef6(a, b, c, d, e, f) == [Coef5(a, b, c, d, e) EXCEPT !.f = f]
Coef9(a, b, c, d, e, f, g, h, i) ==
    [Coef6(a, b, c, d, e, f) EXCEPT !.g = g, !.h = h, !.i = i]

Heights == {Rat(j, 2) : j \in 0..MaxHalfHeight} \cup {Rat(-3, 2)}

CzaplewskiArgs ==
    [dbh : {Rat(20, 1)},
     total_height : Heights \cup {Rat(80, 1)},
     coef : {Coef6(Zero, Zero, One, Zero, One, One),
             Coef6(Zero, Zero, Rat(-1, 1), Rat(-1, 2), One, Rat(2, 1)),
             Coef6(Rat(1, 2), Rat(1, 4), Rat(-1, 1), Rat(-1, 1), One, One)}]

Kozak1969Args ==
    [dbh : {Rat(15, 1), Rat(1, 2)},
     total_height : Heights \cup {Rat(60, 1), Rat(188, 5)},
     coef : {Coef3(One, Zero, Zero),
             Coef3(Rat(2, 1), Rat(-1, 1), Rat(1, 10)),
             Coef3(Rat(-1, 1), Zero, Zero)}]

Kozak1988Args ==
    [dbh : {Rat(2, 1)},
     total_height : Heights,
     coef : {Coef9(One, One, One, Rat(1, 4), One, Zero, Zero, Zero, Zero),
             Coef9(One, Rat(1, 2), Rat(2, 1), Rat(1, 4), One, One, One, One, One),
             Coef9(One, One, One, Rat(4, 1), Rat(-1, 1), Zero, Zero, Zero, Rat(1, 2)),
             Coef9(One, One, One, One, One, Zero, Zero, Zero, Zero)}]

WenselArgs ==
    [dbh : {Rat(2, 1)},
     total_height : Heights,
     coef : {Coef5(One, One, One, Zero, Zero),
             Coef5(Rat(-27, 20), Rat(2, 1), One, Zero, Zero),
             Coef5(One, Rat(1, 2), Rat(1, 2), Rat(1, 4), Rat(1, 4)),
             Coef5(One, Zero, One, Zero, Zero),
             Coef5(One, Rat(-1, 1), One, Zero, Zero),
             Coef5(Zero, Rat(-1, 1), One, Zero, Zero),
             Coef5(Rat(1000, 1), One, One, Zero, Zero),
             Coef5(One, One, Zero, Zero, Zero),
             Coef5(Rat(-1, 1), One, Rat(-2, 1), One, Zero)}]

----------------------------------------------------------------------------
(* The state machine of one evaluator call after another *)

Init ==
    /\ pc = "idle"
    /\ fn = "none"
    /\ dbh = Unset /\ total_height = Unset /\ coef = NoCoef
    /\ top_height = 0 /\ stem_height = 0
    /\ Z = Unset /\ Z2 = Unset /\ I1 = 0 /\ I2 = 0 /\ X = Unset
    /\ dib = Unset /\ dib_int = 0
    /\ stem_heights = EmptyDict
    /\ fault = "none"
    /\ writes = << >>
    /\ build \in Builds

\* Entry of an evaluator: the arguments are bound, stem_heights = {} and
\* top_height = int(total_height); the other locals are not assigned yet and
\* the loop has not produced a height (stem_height is one step before the
\* first height of the range).
Enter(name, args) ==
    /\ pc \in {"idle", "returned", "raised"}
    /\ pc' = "loop"
    /\ fn' = name
    /\ dbh' = args.dbh /\ total_height' = args.total_height /\ coef' = args.coef
    /\ top_height' = TopHeight(args.total_height, build)
    /\ stem_height' = FirstHeight - 1
    /\ Z' = Unset /\ Z2' = Unset /\ I1' = 0 /\ I2' = 0 /\ X' = Unset
    /\ dib' = Unset /\ dib_int' = 0
    /\ stem_heights' = EmptyDict
    /\ fault' = "none"
    /\ writes' = << >>
    /\ UNCHANGED build

CallCzaplewski == \E args \in CzaplewskiArgs : Enter("czaplewski", args)
CallKozak1969  == \E args \in Kozak1969Args  : Enter("kozak1969", args)
CallKozak1988  == \E args \in Kozak1988Args  : Enter("kozak1988", args)
CallWensel     == \E args \in WenselArgs     : Enter("wensel", args)

\* the loop has another height to visit
Looping(name) ==
    /\ pc = "loop"
    /\ fn = name
    /\ InRange(NextHeight(stem_height), top_height)

Frame == UNCHANGED <<fn, dbh, total_height, coef, top_height, build>>

\* a ZeroDivisionError at `site` ends the call; the locals assigned before
\* it keep their values
Raise(site, h, z, z2, x) ==
    /\ pc' = "raised"
    /\ fault' = site
    /\ stem_height' = h
    /\ Z' = z /\ Z2' = z2 /\ X' = x
    /\ UNCHANGED <<I1, I2, dib, dib_int, stem_heights, writes>>
    /\ Frame

\* the tail of every loop body:
\*   dib_int = int(dib); dibs = [dib_int, dib, dib / 12.0]
\*   stem_heights[stem_height] = dibs
Emit(h, z, z2, i1, i2, x, d) ==
    /\ pc' = "loop"
    /\ fault' = fault
    /\ stem_height' = h
    /\ Z' = z /\ Z2' = z2 /\ I1' = i1 /\ I2' = i2 /\ X' = x
    /\ dib' = d
    /\ dib_int' = CastInt(d, build)
    /\ stem_heights' = DictSet(stem_heights, h, Dibs(CastInt(d, build), d))
    /\ writes' = Append(writes, h)
    /\ Frame

\* czaplewski_heights, one pass of the loop body
CzaplewskiStep ==
    /\ Looping("czaplewski")
    /\ LET h == NextHeight(stem_height) IN
       IF ZeroDivisor(total_height) THEN Raise("Z", h, Z, Z2, X)
       ELSE LET z == RelHeight(h, total_height) IN
       IF ZeroDivisor(Sq(total_height)) THEN Raise("Z2", h, z, Z2, X)
       ELSE LET z2 == RelHeight2(h, total_height)
                i1 == Indicator(z, coef.a)
                i2 == Indicator(z, coef.b)
            IN  Emit(h, z, z2, i1, i2, X, CzaplewskiDib(dbh, z, z2, i1, i2, coef))

\* kozak1969_heights, one pass of the loop body
Kozak1969Step ==
    /\ Looping("kozak1969")
    /\ LET h == NextHeight(stem_height) IN
       IF ZeroDivisor(total_height) THEN Raise("Z", h, Z, Z2, X)
       ELSE LET z == RelHeight(h, total_height) IN
       IF ZeroDivisor(Sq(total_height)) THEN Raise("Z2", h, z, Z2, X)
       ELSE LET z2 == RelHeight2(h, total_height)
            IN  Emit(h, z, z2, I1, I2, X, Kozak1969Dib(dbh, z, z2, coef))

\* kozak1988_heights, one pass of the loop body
Kozak1988Step ==
    /\ Looping("kozak1988")
    /\ LET h == NextHeight(stem_height) IN
       IF ZeroDivisor(total_height) THEN Raise("Z", h, Z, Z2, X)
       ELSE LET z == RelHeight(h, total_height) IN
       \E dv \in Kozak1988Divisors(coef) :
          IF ZeroDivisor(dv) THEN Raise("base", h, z, Z2, X)
          ELSE \E d \in Kozak1988Dib(dbh, total_height, z, dv, coef) :
                  Emit(h, z, Z2, I1, I2, X, d)

\* wensel_heights, one pass of the loop body
WenselStep ==
    /\ Looping("wensel")
    /\ LET h == NextHeight(stem_height) IN
       IF ZeroDivisor(WenselDivisor(total_height)) THEN Raise("Z", h, Z, Z2, X)
       ELSE LET z == WenselZ(h, total_height)
                x == WenselX(dbh, total_height, coef)
            IN  IF ZeroDivisor(x) THEN Raise("a/X", h, z, Z2, x)
                ELSE \E d \in WenselDib(dbh, z, x, coef) :
                        Emit(h, z, Z2, I1, I2, x, d)

\* return stem_heights, once the range is exhausted
Return ==
    /\ pc = "loop"
    /\ ~InRange(NextHeight(stem_height), top_height)
    /\ pc' = "returned"
    /\ UNCHANGED <<fn, dbh, total_height, coef, top_height, stem_height,
                   Z, Z2, I1, I2, X, dib, dib_int, stem_heights, fault, writes,
                   build>>

Next ==
    \/ CallCzaplewski
    \/ CallKozak1969
    \/ CallKozak1988
    \/ CallWensel
    \/ CzaplewskiStep
    \/ Kozak1969Step
    \/ Kozak1988Step
    \/ WenselStep
    \/ Return

Spec == Init /\ [][Next]_vars

----------------------------------------------------------------------------
(* Vocabulary of the properties *)

Floor(v) == v.n \div v.d

\* i is the real number v with its fraction discarded
IsTruncationOf(i, v) ==
    /\ IsFin(v)
    /\ IF v.n >= 0 THEN i >= 0 /\ i * v.d <= v.n /\ v.n < (i + 1) * v.d
       ELSE i <= 0 /\ (i - 1) * v.d < v.n /\ v.n <= i * v.d

\* the entry of the profile at a key
DibIntAt(key)       == stem_heights[key][1]
DibAt(key)          == stem_heights[key][2]
DibConvertedAt(key) == stem_heights[key][3]

\* h / total_height and its square, as ratios of integers
RatioAt(h)   == Rat(h * total_height.d, total_height.n)
RatioSqAt(h) == Rat(h * h * total_height.d * total_height.d,
                    total_height.n * total_height.n)

Within(v, lo, hi) == Less(lo, v) /\ Less(v, hi)

Started == pc # "idle"

----------------------------------------------------------------------------
(* Properties *)

\* C1: for each evaluator and every positive total_height for which the call
\* returns, the key set of the returned profile is exactly the integers
\* 1..floor(total_height): no key 0, none above the floor, no gap (37.6
\* gives the 37 keys 1..37).
C1_KeySet ==
    (pc = "returned" /\ Sign(total_height) > 0)
        => DOMAIN stem_heights = 1..Floor(total_height)

C1_Witness ==
    /\ pc = "returned"
    /\ total_height = Rat(188, 5)
    /\ DOMAIN stem_heights = 1..37

\* C2 as stated: in every entry of every returned profile dib_int equals dib
\* truncated toward zero and dib_converted equals dib / 12.0.
C2_Original ==
    pc = "returned" =>
        \A key \in DOMAIN stem_heights :
            /\ IsTruncationOf(DibIntAt(key), DibAt(key))
            /\ DibConvertedAt(key) = FDiv(DibAt(key), FromInt(12))

\* C2 amended: in every entry of every returned profile dib_converted is
\* dib / 12.0; dib_int is dib truncated toward zero whenever dib is finite
\* (-2.7 gives -2); for a NaN or infinite dib, which the evaluators do
\* store, dib_int is what the build's cast gives (INT_MIN, 0 or INT_MAX),
\* not a truncation.
C2_Entries ==
    pc = "returned" =>
        \A key \in DOMAIN stem_heights :
            /\ DibConvertedAt(key) = FDiv(DibAt(key), FromInt(12))
            /\ IsFin(DibAt(key)) => IsTruncationOf(DibIntAt(key), DibAt(key))
            /\ ~IsFin(DibAt(key)) => DibIntAt(key) \in {INT_MIN, 0, INT_MAX}

C2_Witness ==
    /\ pc = "returned"
    /\ fn = "wensel"
    /\ 1 \in DOMAIN stem_heights
    /\ stem_heights[1] = <<-2, Rat(-27, 10), Rat(-9, 40)>>

\* C3 as stated: in wensel_heights Z is 0 at height 1 and the dib emitted at
\* key 1 is dbh*a for every coefficient set, b = 0 and b < 0 included.
C3_Original ==
    (fn = "wensel" /\ 1 \in DOMAIN stem_heights)
        => DibAt(1) = Mul(dbh, coef.a)

\* C3 amended: in wensel_heights Z is 0 at height 1 whatever the
\* coefficients, and the dib emitted at key 1 is dbh*a for every coefficient
\* set with b > 0 for which exp(a/X) is finite.  (With b = 0, Z**b is 1 and
\* the logarithm is log(exp(a/X)); with b < 0, Z**b is +inf and dib is NaN
\* or infinite; when exp(a/X) overflows, 0 * -inf is NaN.)
C3_HeightOne ==
    (fn = "wensel" /\ stem_height = 1 /\ fault # "Z")
        => /\ Z = Zero
           /\ (/\ 1 \in DOMAIN stem_heights
               /\ Sign(coef.b) > 0
               /\ PInf \notin Exp(FDiv(coef.a, X)))
                  => DibAt(1) = Mul(dbh, coef.a)

C3_Witness ==
    /\ fn = "wensel"
    /\ stem_height = 1
    /\ coef.b = Rat(2, 1)
    /\ Z = Zero
    /\ 1 \in DOMAIN stem_heights
    /\ DibAt(1) = Rat(-27, 10)

\* C4 as stated: with total_height zero each evaluator executes its loop
\* body at least once and fails there with a division by zero, rather than
\* returning normally.
C4_Original ==
    (IsZero(total_height) /\ pc \in {"returned", "raised"})
        => (pc = "raised" /\ stem_height >= 1)

\* C4 amended: with total_height zero, top_height is 0, the range
\* 1..top_height is empty, the loop body never executes, nothing is divided,
\* and each evaluator returns an empty profile normally.
C4_ZeroHeight ==
    (Started /\ IsZero(total_height))
        => /\ top_height = 0
           /\ stem_height = 0
           /\ stem_heights = EmptyDict
           /\ writes = << >>
           /\ fault = "none"
           /\ pc \in {"loop", "returned"}

C4_Witness ==
    /\ pc = "returned"
    /\ fn = "kozak1969"
    /\ IsZero(total_height)
    /\ stem_heights = EmptyDict

\* C5: in czaplewski_heights with a = b = 0 both indicators are 0 at every
\* iterated height, and at every key h the emitted dib is
\* dbh*sqrt(c*(Z-1) + d*(Z2-1)) with Z = h/total_height and
\* Z2 = h^2/total_height^2 (sample tree: dbh 20, total_height 80, c 1, d 0,
\* every h in 1..80).
C5_IndicatorsOff ==
    (fn = "czaplewski" /\ coef.a = Zero /\ coef.b = Zero)
        => /\ I1 = 0 /\ I2 = 0
           /\ \A h \in DOMAIN stem_heights :
                 DibAt(h) = Mul(dbh, Sqrt(Add(Mul(coef.c, Sub(RatioAt(h), One)),
                                              Mul(coef.d, Sub(RatioSqAt(h), One)))))

C5_Witness ==
    /\ fn = "czaplewski"
    /\ pc = "returned"
    /\ dbh = Rat(20, 1) /\ total_height = Rat(80, 1)
    /\ coef.a = Zero /\ coef.b = Zero /\ coef.c = One /\ coef.d = Zero
    /\ coef.e = One /\ coef.f = One
    /\ DOMAIN stem_heights = 1..80
    /\ DibAt(80) = Zero

\* C6: in kozak1969_heights with a = 1, b = 0, c = 0 the emitted dib equals
\* dbh at every key, for every positive dbh and total_height.
C6_UnitRadicand ==
    (/\ fn = "kozak1969"
     /\ coef.a = One /\ coef.b = Zero /\ coef.c = Zero
     /\ Sign(dbh) > 0 /\ Sign(total_height) > 0)
        => /\ \A h \in DOMAIN stem_heights : DibAt(h) = dbh
           /\ pc = "returned" => DOMAIN stem_heights = 1..Floor(total_height)

C6_Witness ==
    /\ fn = "kozak1969"
    /\ pc = "returned"
    /\ coef.a = One /\ coef.b = Zero /\ coef.c = Zero
    /\ dbh = Rat(1, 2)
    /\ DOMAIN stem_heights = 1..3
    /\ \A h \in 1..3 : DibAt(h) = Rat(1, 2)

\* C7: kozak1969_heights computes dib = dbh*sqrt(a + b*Z + c*Z2) with
\* Z = h/total_height and Z2 = Z^2 at every h; for dbh 15, total_height 60,
\* a 2, b -1, c 0.1 the entry at h = 30 has Z = 0.5, Z2 = 0.25, dib about
\* 18.524 (within 0.005), dib_int = 18 and dib_converted about 1.5437
\* (within 0.0005), which is dib / 12.
C7_Kozak1969 ==
    fn = "kozak1969" =>
        /\ \A h \in DOMAIN stem_heights :
              DibAt(h) = Mul(dbh, Sqrt(Add(Add(coef.a, Mul(coef.b, RatioAt(h))),
                                           Mul(coef.c, Sq(RatioAt(h))))))
        /\ (/\ dbh = Rat(15, 1) /\ total_height = Rat(60, 1)
            /\ coef.a = Rat(2, 1) /\ coef.b = Rat(-1, 1) /\ coef.c = Rat(1, 10)
            /\ 30 \in DOMAIN stem_heights)
               => /\ stem_height = 30 => (Z = Rat(1, 2) /\ Z2 = Rat(1, 4))
                  /\ Within(DibAt(30), Rat(18519, 1000), Rat(18529, 1000))
                  /\ DibIntAt(30) = 18
                  /\ Within(DibConvertedAt(30), Rat(15432, 10000), Rat(15442, 10000))
                  /\ DibConvertedAt(30) = FDiv(DibAt(30), FromInt(12))

C7_Witness ==
    /\ fn = "kozak1969"
    /\ dbh = Rat(15, 1) /\ total_height = Rat(60, 1)
    /\ coef.a = Rat(2, 1) /\ coef.b = Rat(-1, 1) /\ coef.c = Rat(1, 10)
    /\ stem_height = 30
    /\ Z = Rat(1, 2) /\ Z2 = Rat(1, 4)
    /\ DibIntAt(30) = 18

\* C8: wensel_heights guards neither singularity.  With total_height = 1 the
\* only iterated height divides by zero computing Z; with X = 0 every
\* iterated height divides by zero computing a/X.  The failure propagates,
\* as an arithmetic fault ending the call or as an invalid value in the
\* entry, and no entry with a finite diameter is produced for these heights.
C8_Singularities ==
    (/\ fn = "wensel"
     /\ \/ total_height = One
        \/ IsZero(WenselX(dbh, total_height, coef)))
        => /\ \A h \in DOMAIN stem_heights : ~IsFin(DibAt(h))
           /\ \A h \in 1..stem_height :
                 h \notin DOMAIN stem_heights => fault # "none"
           /\ fault # "none" =>
                 fault = (IF total_height = One THEN "Z" ELSE "a/X")
           /\ pc = "returned" =>
                 \A h \in 1..top_height : h \in DOMAIN stem_heights

C8_Witness ==
    /\ fn = "wensel"
    /\ pc = "raised"
    /\ total_height = Rat(7, 2)
    /\ coef.c = Rat(-2, 1)
    /\ X = Zero
    /\ fault = "a/X"
    /\ stem_height = 1
    /\ stem_heights = EmptyDict

\* C9: in the three evaluators that normalise by Z = h/total_height, at every
\* loop iteration with total_height > 0 the relative position satisfies
\* 0 < Z <= 1, and Z = 1 exactly when total_height is an integer and
\* h = total_height.
C9_RelativePosition ==
    (/\ fn \in {"czaplewski", "kozak1969", "kozak1988"}
     /\ Z # Unset
     /\ Sign(total_height) > 0)
        => /\ Less(Zero, Z)
           /\ ~Less(One, Z)
           /\ (Z = One) <=> (total_height = FromInt(stem_height))

C9_Witness ==
    /\ fn = "kozak1988"
    /\ total_height = Rat(3, 1)
    /\ stem_height = 3
    /\ Z = One
    /\ 3 \in DOMAIN stem_heights

\* C10: a call that does not fault terminates after exactly
\* floor(total_height) loop iterations (none when total_height < 1, giving an
\* empty profile); heights are visited in ascending order 1, 2, ..., each
\* key is written once, the profile starts empty on every call, and at any
\* intermediate point it holds exactly the entries for heights 1..k.
\* Termination: every step that stays in the loop moves stem_height one
\* closer to top_height, and the step that leaves it at top_height returns.
C10_Progress ==
    /\ Len(writes) <= (IF top_height < 0 THEN 0 ELSE top_height)
    /\ \A j \in 1..Len(writes) : writes[j] = j
    /\ DOMAIN stem_heights = 1..Len(writes)
    /\ pc = "loop" => stem_height = Len(writes)
    /\ pc = "returned" =>
          Len(writes) = (IF Less(total_height, One) THEN 0 ELSE Floor(total_height))

C10_Step ==
    /\ (pc # "loop" /\ pc' = "loop")
          => (stem_heights' = EmptyDict /\ writes' = << >>)
    /\ (pc = "loop" /\ pc' = "loop")
          => /\ stem_height' = stem_height + 1
             /\ stem_height' <= top_height
             /\ writes' = Append(writes, stem_height')
             /\ DOMAIN stem_heights' = DOMAIN stem_heights \cup {stem_height'}
             /\ \A h \in DOMAIN stem_heights : stem_heights'[h] = stem_heights[h]
    /\ (pc = "loop" /\ pc' = "returned")
          => (stem_height = top_height \/ top_height < 1) /\ stem_heights' = stem_heights

C10_Iteration == []C10_Progress /\ [][C10_Step]_vars

C10_Witness ==
    /\ pc = "returned"
    /\ fn = "wensel"
    /\ total_height = Rat(7, 2)
    /\ writes = <<1, 2, 3>>
    /\ DOMAIN stem_heights = 1..3

====
